---- MODULE Spec2Model ----
(***************************************************************************)
(* Streaming kline client (binance_ws_client.py) and its signal-generating *)
(* subclass (trading_signals.py), as a state machine.                      *)
(*                                                                         *)
(* One connection thread runs start() -> run_forever and dispatches the    *)
(* handlers on_open / on_message / on_error / on_close; unsubscribe() is   *)
(* called from outside that thread.  The websocket transport and the `ta`  *)
(* indicator library are the environment: the transport decides which      *)
(* handler fires next, the library decides the RSI / MACD values of a tick.*)
(***************************************************************************)
EXTENDS Integers, Sequences, FiniteSets, TLC

(* ------------------------------------------------------------------ *)
(* Program constants (config.py)                                       *)
(* ------------------------------------------------------------------ *)
max_reconnect_attempts == 5
max_open_positions == 1
max_daily_trades == 10
max_daily_loss == 5
rsi_overbought == 70
rsi_oversold == 30
\* Entries the dashboard keeps in st.session_state.signals.
max_signals == 10

(* ------------------------------------------------------------------ *)
(* Bounds of the model                                                 *)
(* ------------------------------------------------------------------ *)
\* Capacity of the candle window: on_message keeps the last 1000 rows
\* (binance_ws_client.py:218-219).  The model runs the same trim with a
\* small capacity so that a full window and evictions are reached.
MaxRows == 4
\* Rows TradingSignalGenerator.calculate_indicators needs before it
\* evaluates a tick (30 in trading_signals.py:54), scaled with MaxRows.
MinBars == 2
\* Rows BinanceWebSocketClient.generate_trading_signals needs before it
\* evaluates its rules (50 in binance_ws_client.py:35), scaled likewise; it
\* stays two rows above MinBars so that the second policy can act on a
\* window the first policy still refuses.
MinSignalBars == 4
\* Messages one client puts on its channel in a run (caps the channel).
MaxPublished == 6
\* Messages put on the channel in a run of the consumer alone.
MaxMessages == 12
\* Close events handled in one run (caps the history counters).
MaxCloses == 6
\* Client threads one dashboard session starts in a run.
MaxThreads == 3
\* Candles one client thread handles in a run of the session.
MaxThreadFrames == 2

\* open_time values of kline frames: enough for an older, an equal and a
\* newer frame than the tail.
Times == {1, 2}
\* RSI values the indicator library may return (the two thresholds and a
\* value between them).
RSIVals == {rsi_oversold, 50, rsi_overbought}
MACDVals == {-1, 0, 1}

(* ------------------------------------------------------------------ *)
(* Python values: a float, NaN, or None                                *)
(* ------------------------------------------------------------------ *)
Num(n) == [k |-> "num", v |-> n]
NaN == [k |-> "nan", v |-> 0]
None == [k |-> "none", v |-> 0]
\* IEEE comparisons: every comparison with NaN is false.
Lt(a, b) == a.k = "num" /\ b.k = "num" /\ a.v < b.v
Le(a, b) == a.k = "num" /\ b.k = "num" /\ a.v <= b.v
Gt(a, b) == Lt(b, a)
Ge(a, b) == Le(b, a)

\* What the library hands to a tick: RSI and MACD are defined once MinBars
\* rows exist, the MACD signal line may still be NaN (it needs more rows).
IndicatorInputs ==
    [rsi : {Num(r) : r \in RSIVals},
     macd : {Num(m) : m \in MACDVals},
     macd_signal : {Num(0), NaN}]

VARIABLES
    cls,                \* which class the client object is
    pc,                 \* position of the connection thread
    ws,                 \* state of the WebSocketApp transport (self.ws)
    is_connected,
    reconnect_attempts,
    df,                 \* the candle window: rows, oldest first
    in_long_position,
    in_short_position,
    last_rsi,
    last_macd,
    last_macd_signal,
    daily_trades,
    daily_loss,
    \* history variables (observations, not program state)
    closes,             \* on_close events handled in the run
    reconnects,         \* start() calls made by on_close in the run
    row_closes,         \* on_close events since the last on_open
    row_reconnects,     \* start() calls by on_close since the last on_open
    unsubscribed,       \* unsubscribe() has sent UNSUBSCRIBE and closed
    trimmed,            \* the window was cut back to its capacity
    \* the consumer channel and the dashboard's side of it
    has_queue,          \* self.data_queue is not None
    data_queue,         \* messages put and not yet taken, oldest first
    signals,            \* st.session_state.signals
    session_df,         \* the snapshot in st.session_state.df
    start_outcome,      \* what the caller of start() has observed
    \* more history variables
    pub_seq,            \* messages put on the channel in the run
    last_frame,         \* kind of the last frame on_message handled
    last_tick,          \* what calculate_indicators did on the last frame
    subscribed_once,    \* some session has reached Subscribed
    taken,              \* seq of every signal the dashboard has taken
    \* the dashboard session that owns the channel
    client_started,     \* st.session_state.client_started
    session_queue,      \* which Queue st.session_state.data_queue is
    threads             \* every websocket_thread started, oldest first

conn_vars == <<pc, ws, is_connected, reconnect_attempts>>
signal_vars == <<in_long_position, in_short_position, last_rsi, last_macd,
                 last_macd_signal, daily_trades, daily_loss>>
hist_vars == <<closes, reconnects, row_closes, row_reconnects, unsubscribed>>
chan_vars == <<has_queue, data_queue, signals, session_df, pub_seq, taken>>
call_vars == <<start_outcome, subscribed_once>>
session_vars == <<client_started, session_queue, threads>>
tick_vars == <<last_frame, last_tick>>
data_vars == <<df, trimmed, signal_vars, chan_vars, tick_vars>>
vars == <<cls, conn_vars, data_vars, hist_vars, call_vars, session_vars>>

(* ------------------------------------------------------------------ *)
(* Construction                                                        *)
(* ------------------------------------------------------------------ *)
\* Columns calculate_indicators assigns, in the order it assigns them.
BaseColumns == <<"rsi", "sma_20", "sma_50", "macd", "macd_signal",
                 "macd_diff", "vwap">>
SignalColumns == <<"rsi", "macd", "macd_signal", "macd_diff">>
ColumnsBefore(cols, n) == {cols[i] : i \in 1..n}

\* iloc[-1], iloc[-2] and the rolling volume mean of a recompute, as the
\* library produced them: a number, or NaN where a series is not defined
\* yet (SMA50 has no value on the first 49 rows).  l20, l50 are SMA20 and
\* SMA50 on the latest bar, p20, p50 on the previous one; the other pairs
\* of series cross up, cross down or stay level.
Patterns == {"up", "down", "flat"}
Upper(p) == IF p = "up" THEN 2 ELSE 1
Lower(p) == IF p = "down" THEN 2 ELSE 1
RuleSnapshot(rsi, l20, l50, p20, p50, macd, volume, vwap) ==
    [latest |-> [rsi |-> Num(rsi), sma_20 |-> Num(l20), sma_50 |-> Num(l50),
                 macd |-> Num(Upper(macd)), macd_signal |-> Num(Lower(macd)),
                 close |-> Num(Upper(vwap)), vwap |-> Num(Lower(vwap)),
                 volume |-> Num(volume)],
     prev |-> [sma_20 |-> Num(p20), sma_50 |-> p50,
               macd |-> Num(Lower(macd)), macd_signal |-> Num(Upper(macd)),
               close |-> Num(Lower(vwap)), vwap |-> Num(Upper(vwap))],
     volume_mean |-> 2]
TickSnapshot(rsi, sma, macd, volume, vwap) ==
    RuleSnapshot(rsi, Upper(sma), Lower(sma), Lower(sma), Num(Upper(sma)),
                 macd, volume, vwap)
\* Combinations of the rules' conditions: RSI in each band, every order of
\* the two averages on both bars, MACD crossing up or level, the close
\* crossing below VWAP or level, volume under or over its mean.  p50s is
\* what SMA50 may be on the previous bar.
SnapshotInputs(p50s) ==
    {RuleSnapshot(r, l20, l50, p20, p50, m, v, w) :
        r \in {20, 50, 80}, l20 \in {1, 2}, l50 \in {1, 2}, p20 \in {1, 2},
        p50 \in p50s, m \in {"up", "flat"}, v \in {1, 3},
        w \in {"down", "flat"}}
\* The snapshots the specifications draw from: no rule fires, a long
\* signal with volume confirmation, a short signal from two rules.  The
\* rules give the same result on each of them whether or not SMA50 has a
\* value on the previous bar.
TickInputs ==
    {TickSnapshot(50, "flat", "flat", 1, "flat"),
     TickSnapshot(20, "flat", "flat", 3, "flat"),
     TickSnapshot(80, "down", "flat", 1, "flat")}
NoSnapshot == TickSnapshot(50, "flat", "flat", 1, "flat")
\* generate_trading_signals built no signal (or never ran).
NoSignal == [type |-> "none", strength2 |-> 0, reasons |-> <<>>,
             price |-> 0, stop_loss100 |-> 0, take_profit100 |-> 0]

\* A frame that never reached calculate_indicators.  `input` is the
\* snapshot the base class read on the tick, `signal` the signal it logged.
NoTick == [outcome |-> "none", written |-> {}, published |-> 0,
           input |-> NoSnapshot, signal |-> NoSignal]
TickResult(outcome, written, published) ==
    [outcome |-> outcome, written |-> written, published |-> published,
     input |-> NoSnapshot, signal |-> NoSignal]

\* Mutant of df_copy: the live frame itself is handed over.
df_no_copy(rows) == [shared |-> TRUE, rows |-> <<>>]
\* self.df.copy(): a frame of its own holding the rows of this moment.
df_copy(rows) == [shared |-> FALSE, rows |-> rows]
\* What a reader finds in frame f while the client's window is `live`.
frame_rows(f, live) == IF f.shared THEN live ELSE f.rows
\* st.session_state.df before a snapshot was taken: an empty frame.
EmptySnapshot ==
    [kind |-> "df", seq |-> 0, frame |-> [shared |-> FALSE, rows |-> <<>>]]

\* The object after __init__; the owner attaches a channel or does not.
Constructed ==
    /\ cls \in {"BinanceWebSocketClient", "TradingSignalGenerator"}
    /\ pc = "init"
    /\ ws = "none"
    /\ is_connected = FALSE
    /\ reconnect_attempts = 0
    /\ df = <<>>
    /\ in_long_position = FALSE
    /\ in_short_position = FALSE
    /\ last_rsi = None
    /\ last_macd = None
    /\ last_macd_signal = None
    /\ daily_trades = 0
    /\ daily_loss = 0
    /\ closes = 0
    /\ reconnects = 0
    /\ row_closes = 0
    /\ row_reconnects = 0
    /\ unsubscribed = FALSE
    /\ trimmed = FALSE
    /\ data_queue = <<>>
    /\ signals = <<>>
    /\ session_df = EmptySnapshot
    /\ start_outcome = "not_called"
    /\ pub_seq = 0
    /\ taken = <<>>
    /\ last_frame = "none"
    /\ last_tick = NoTick
    /\ subscribed_once = FALSE

\* The client run on its own (the __main__ blocks): data_queue stays None.
\* No dashboard: the client is run on its own.
NoSession ==
    /\ client_started = FALSE
    /\ session_queue = 0
    /\ threads = <<>>
\* A websocket_thread of the dashboard: the Queue it was given, whether it
\* still runs its client, and the messages it has put.
Thread(q) == [queue |-> q, live |-> TRUE, published |-> 0]
\* The dashboard after Start: one thread, holding the session's Queue.
OneClientSession ==
    /\ client_started = TRUE
    /\ session_queue = 1
    /\ threads = <<Thread(1)>>

Init ==
    /\ Constructed
    /\ has_queue = FALSE
    /\ NoSession

(* ------------------------------------------------------------------ *)
(* TradingSignalGenerator: risk gate and position machine              *)
(* ------------------------------------------------------------------ *)
\* check_risk_limits(): TRUE when an entry may be made.
check_risk_limits ==
    IF daily_trades >= max_daily_trades THEN FALSE
    ELSE IF daily_loss >= max_daily_loss THEN FALSE
    ELSE IF (in_long_position \/ in_short_position) /\ max_open_positions <= 1
         THEN FALSE
    ELSE TRUE

rsi_crossed_below_oversold(cur) ==
    Gt(last_rsi, Num(rsi_oversold)) /\ Le(cur, Num(rsi_oversold))
rsi_crossed_above_overbought(cur) ==
    Lt(last_rsi, Num(rsi_overbought)) /\ Ge(cur, Num(rsi_overbought))
macd_crossed_above_signal(m, s) ==
    Le(last_macd, last_macd_signal) /\ Gt(m, s)
macd_crossed_below_signal(m, s) ==
    Ge(last_macd, last_macd_signal) /\ Lt(m, s)

\* Mutant of count_trade: an entry is not counted.
count_trade_not(n) == n
\* self.daily_trades += 1
count_trade(n) == n + 1

\* The if / elif chain of generate_signals, after the risk check passed.
\* The third branch repeats the condition of the first one.
position_machine(current_rsi, current_macd, current_macd_signal) ==
    IF ~in_long_position /\ ~in_short_position
    THEN IF /\ rsi_crossed_below_oversold(current_rsi)
            /\ macd_crossed_above_signal(current_macd, current_macd_signal)
         THEN /\ in_long_position' = TRUE
              /\ daily_trades' = count_trade(daily_trades)
              /\ UNCHANGED in_short_position
         ELSE UNCHANGED <<in_long_position, in_short_position, daily_trades>>
    ELSE IF in_long_position
    THEN IF \/ rsi_crossed_above_overbought(current_rsi)
            \/ macd_crossed_below_signal(current_macd, current_macd_signal)
         THEN /\ in_long_position' = FALSE
              /\ UNCHANGED <<in_short_position, daily_trades>>
         ELSE UNCHANGED <<in_long_position, in_short_position, daily_trades>>
    ELSE IF ~in_long_position /\ ~in_short_position
    THEN IF /\ rsi_crossed_above_overbought(current_rsi)
            /\ macd_crossed_below_signal(current_macd, current_macd_signal)
         THEN /\ in_short_position' = TRUE
              /\ daily_trades' = count_trade(daily_trades)
              /\ UNCHANGED in_long_position
         ELSE UNCHANGED <<in_long_position, in_short_position, daily_trades>>
    ELSE IF in_short_position
    THEN IF \/ rsi_crossed_below_oversold(current_rsi)
            \/ macd_crossed_above_signal(current_macd, current_macd_signal)
         THEN /\ in_short_position' = FALSE
              /\ UNCHANGED <<in_long_position, daily_trades>>
         ELSE UNCHANGED <<in_long_position, in_short_position, daily_trades>>
    ELSE UNCHANGED <<in_long_position, in_short_position, daily_trades>>

\* Mutant of generate_signals: the early return on check_risk_limits() is
\* missing.
generate_signals_no_gate(current_rsi, current_macd, current_macd_signal) ==
    IF last_rsi = None \/ last_macd = None \/ last_macd_signal = None
    THEN UNCHANGED <<in_long_position, in_short_position, daily_trades>>
    ELSE position_machine(current_rsi, current_macd, current_macd_signal)

\* generate_signals(current_rsi, current_macd, current_macd_signal)
generate_signals(current_rsi, current_macd, current_macd_signal) ==
    IF last_rsi = None \/ last_macd = None \/ last_macd_signal = None
    THEN UNCHANGED <<in_long_position, in_short_position, daily_trades>>
    ELSE IF ~check_risk_limits
    THEN UNCHANGED <<in_long_position, in_short_position, daily_trades>>
    ELSE position_machine(current_rsi, current_macd, current_macd_signal)

\* TradingSignalGenerator.calculate_indicators(), run on the window `rows`
\* that on_message has just built; `ind` is what the library computes.
\* `fail` names the library call that raises, if one does: nothing catches
\* it here, so the columns assigned before it stay and on_message logs it.
\* The override never touches data_queue.
signals_calculate_indicators(rows, ind, fail) ==
    /\ IF Len(rows) < MinBars
       THEN /\ UNCHANGED signal_vars
            /\ last_tick' = TickResult("skipped", {}, 0)
       ELSE IF fail \in {"rsi", "macd"}
       THEN /\ UNCHANGED signal_vars
            /\ last_tick' =
                 TickResult("failed",
                            ColumnsBefore(SignalColumns,
                                          IF fail = "rsi" THEN 0 ELSE 1), 0)
       ELSE /\ generate_signals(ind.rsi, ind.macd, ind.macd_signal)
            /\ last_rsi' = ind.rsi
            /\ last_macd' = ind.macd
            /\ last_macd_signal' = ind.macd_signal
            /\ UNCHANGED daily_loss
            /\ last_tick' =
                 TickResult("ok", ColumnsBefore(SignalColumns, 4), 0)
    /\ UNCHANGED chan_vars

(* ------------------------------------------------------------------ *)
(* BinanceWebSocketClient: weighted signals and the consumer channel   *)
(* ------------------------------------------------------------------ *)
\* Mutant of enough_history: one row less is enough.
enough_history_one_less(rows) == Len(rows) >= MinSignalBars - 1
\* The length check that opens generate_trading_signals.
enough_history(rows) == Len(rows) >= MinSignalBars

\* self.df.fillna(0) (line 152), as it shows in the fields of one row.
fillna0(x) == IF x.k = "num" THEN x.v ELSE 0
Filled(row) == [f \in DOMAIN row |-> fillna0(row[f])]

\* The four rules: which direction each one flags.
rsi_vote(latest) ==
    IF latest.rsi < 30 THEN "long"
    ELSE IF latest.rsi > 70 THEN "short" ELSE "none"
\* Mutant of sma_vote: the previous bar must be strictly on the other side.
sma_vote_strict(latest, prev) ==
    IF latest.sma_20 > latest.sma_50 /\ prev.sma_20 < prev.sma_50
    THEN "long"
    ELSE IF latest.sma_20 < latest.sma_50 /\ prev.sma_20 > prev.sma_50
    THEN "short" ELSE "none"
sma_vote(latest, prev) ==
    IF latest.sma_20 > latest.sma_50 /\ prev.sma_20 <= prev.sma_50
    THEN "long"
    ELSE IF latest.sma_20 < latest.sma_50 /\ prev.sma_20 >= prev.sma_50
    THEN "short" ELSE "none"
macd_vote(latest, prev) ==
    IF latest.macd > latest.macd_signal /\ prev.macd <= prev.macd_signal
    THEN "long"
    ELSE IF latest.macd < latest.macd_signal
            /\ prev.macd >= prev.macd_signal
    THEN "short" ELSE "none"
vwap_vote(latest, prev) ==
    IF latest.close > latest.vwap /\ prev.close <= prev.vwap
    THEN "long"
    ELSE IF latest.close < latest.vwap /\ prev.close >= prev.vwap
    THEN "short" ELSE "none"

\* Mutant of signal_type: the bearish flag wins.
signal_type_short_first(long_signal, short_signal) ==
    IF short_signal THEN "short" ELSE "long"
\* signal_type = "long" if long_signal else "short"
signal_type(long_signal, short_signal) ==
    IF long_signal THEN "long" ELSE "short"

\* Lines 97-106: the signal_data built from what the rules flagged.
\* strength2 is twice the strength (the rules add 1 or 0.5); stop_loss100
\* and take_profit100 are a hundred times the levels (close * 0.98 becomes
\* close * 98).
signal_data_of(close, rsi, sma, macd, vwap, volume_high) ==
    LET first3 == {rsi, sma, macd}
        volume_confirms ==
            volume_high /\ ("long" \in first3 \/ "short" \in first3)
        long_signal == "long" \in first3 \cup {vwap}
        short_signal == "short" \in first3 \cup {vwap}
        Whole(v) == IF v = "none" THEN 0 ELSE 2
        Half(c) == IF c THEN 1 ELSE 0
        Reason(v, up, down) ==
            IF v = "long" THEN <<up>> ELSE IF v = "short" THEN <<down>>
            ELSE <<>>
    IN  IF ~(long_signal \/ short_signal)
        THEN NoSignal
        ELSE [type |-> signal_type(long_signal, short_signal),
              strength2 |-> Whole(rsi) + Whole(sma) + Whole(macd)
                            + Half(volume_confirms) + Half(vwap # "none"),
              reasons |->
                  Reason(rsi, "RSI oversold", "RSI overbought")
                  \o Reason(sma, "Golden cross (SMA20 crossed above SMA50)",
                            "Death cross (SMA20 crossed below SMA50)")
                  \o Reason(macd, "MACD bullish crossover",
                            "MACD bearish crossover")
                  \o (IF volume_confirms
                      THEN <<"High volume confirmation">> ELSE <<>>)
                  \o Reason(vwap, "Price crossed above VWAP",
                            "Price crossed below VWAP"),
              price |-> close,
              stop_loss100 |-> IF long_signal THEN close * 98
                               ELSE close * 102,
              take_profit100 |-> IF long_signal THEN close * 103
                                 ELSE close * 97]

\* Lines 38-94 on the rows latest = iloc[-1] and prev = iloc[-2].
apply_rules(latest, prev, volume_mean) ==
    signal_data_of(latest.close, rsi_vote(latest), sma_vote(latest, prev),
                   macd_vote(latest, prev), vwap_vote(latest, prev),
                   latest.volume > volume_mean)

\* generate_trading_signals on window `rows`: the signal_data it builds,
\* NoSignal when it builds none.
generate_trading_signals(rows, b) ==
    IF ~enough_history(rows) THEN NoSignal
    ELSE apply_rules(Filled(b.latest), Filled(b.prev), b.volume_mean)

\* Mutant of queue_full: the channel holds one message at most.
queue_full_bounded(q) == Len(q) >= 1
\* queue.Queue() is built without maxsize: put never finds it full.
queue_full(q) == FALSE

\* data_queue.put(m) for each m of msgs, in order; put waits while the
\* queue is full.
queue_put(msgs) ==
    /\ msgs # <<>> => ~queue_full(data_queue)
    /\ pub_seq + Len(msgs) <= MaxPublished
    /\ data_queue' = data_queue \o msgs
    /\ pub_seq' = pub_seq + Len(msgs)
    /\ UNCHANGED <<has_queue, signals, session_df, taken>>

\* Mutant of put_order: the signal is put before the snapshot.
put_order_signal_first(snapshots, sigs) == sigs \o snapshots
\* The put at line 163 comes before the call at line 167 that puts the
\* signal (line 110).
put_order(snapshots, sigs) == snapshots \o sigs

\* Library calls of the recompute that may raise, in program order;
\* "signals" is an exception inside generate_trading_signals.
FailPoints == {"none", "rsi", "sma", "macd", "vwap", "signals"}
\* Columns already assigned when the call raises.
AssignedBefore(fail) ==
    CASE fail = "rsi" -> 0
      [] fail = "sma" -> 1
      [] fail = "macd" -> 3
      [] fail = "vwap" -> 6

\* BinanceWebSocketClient.calculate_indicators() from the first library
\* call to the except clause, which logs and returns; sig is what
\* generate_trading_signals builds when it is reached.
recompute(rows, b, fail, sig) ==
    LET snapshot == [kind |-> "df", seq |-> pub_seq + 1,
                     frame |-> df_copy(rows)]
        sent == IF has_queue THEN <<snapshot>> ELSE <<>>
        signal_data == [kind |-> "signal", seq |-> pub_seq + 2,
                        type |-> sig.type, strength2 |-> sig.strength2,
                        reasons |-> sig.reasons, price |-> sig.price,
                        stop_loss100 |-> sig.stop_loss100,
                        take_profit100 |-> sig.take_profit100]
        all == ColumnsBefore(BaseColumns, 7)
        \* generate_trading_signals ran on input b and logged signal s
        Ran(outcome, published, s) ==
            [outcome |-> outcome, written |-> all, published |-> published,
             input |-> b, signal |-> s]
    IN  /\ UNCHANGED signal_vars
        /\ IF fail \in {"rsi", "sma", "macd", "vwap"}
           THEN /\ last_tick' =
                     TickResult("failed",
                                ColumnsBefore(BaseColumns,
                                              AssignedBefore(fail)), 0)
                /\ UNCHANGED chan_vars
           ELSE IF fail = "signals" /\ enough_history(rows)
           THEN /\ queue_put(sent)
                /\ last_tick' = TickResult("failed", all, Len(sent))
           ELSE IF sig.type = "none"
           THEN /\ queue_put(sent)
                /\ last_tick' = Ran("ok", Len(sent), NoSignal)
           ELSE IF has_queue
           THEN /\ queue_put(put_order(sent, <<signal_data>>))
                /\ last_tick' = Ran("ok", Len(sent) + 1, sig)
           ELSE \* None has no put: AttributeError before the signal is
                \* logged, caught by the except clause
                /\ UNCHANGED chan_vars
                /\ last_tick' = Ran("failed", 0, NoSignal)

\* BinanceWebSocketClient.calculate_indicators() on the window `rows` that
\* on_message has just built.
base_calculate_indicators(rows, b, fail) ==
    recompute(rows, b, fail, generate_trading_signals(rows, b))

(* ------------------------------------------------------------------ *)
(* on_message                                                          *)
(* ------------------------------------------------------------------ *)
\* What a field of a decoded kline payload may hold besides a number
\* (Num): null (None), a string that is no number, the string "NaN", or
\* nothing at all (the key is absent).
Text == [k |-> "text", v |-> 0]
NaNText == [k |-> "nantext", v |-> 0]
Missing == [k |-> "missing", v |-> 0]
\* A conversion raised (ValueError, TypeError, KeyError).
Raised == [k |-> "raised", v |-> 0]

\* pd.to_datetime(kline['t'], unit='ms') of a number, of a string that is
\* no number, or of an absent key.
pd_to_datetime(x) == IF x.k = "num" THEN x ELSE Raised
\* float(kline['c']): the string "NaN" is a float literal.
float(x) ==
    IF x.k = "num" THEN x ELSE IF x.k = "nantext" THEN NaN ELSE Raised
\* The dict new_data; ok is FALSE when building it raised.
new_data(msg) ==
    LET ts == pd_to_datetime(msg.t)
        c == float(msg.c)
    IN  [ok |-> ts.k # "raised" /\ c.k # "raised", timestamp |-> ts,
         close |-> c]

\* Frames: kind, and for a kline payload its open_time and close fields.
Frame(kind, t, c) == [kind |-> kind, t |-> t, c |-> c]
Kline(t) == Frame("kline", Num(t), Num(1))
ValidKlines == {Kline(t) : t \in Times}
ControlFrames ==
    {Frame(kind, Missing, Missing) : kind \in {"result", "error"}}
MalformedFrames ==
    {Frame(kind, Missing, Missing) : kind \in {"binary", "not_json", "other"}}
    \cup {Frame("kline", t, Num(1)) : t \in {Text, Missing}}
    \cup {Frame("kline", Num(1), c) : c \in {Text, NaNText, Missing, None}}
Frames == ValidKlines \cup ControlFrames \cup MalformedFrames
frame_kind(msg) ==
    IF msg \in ValidKlines THEN "kline"
    ELSE IF msg.kind = "kline" THEN "bad_kline"
    ELSE IF msg \in ControlFrames THEN "control" ELSE "unexpected"

\* Mutant of accepts: a control frame is taken for a candle.
accepts_control(msg) ==
    \/ msg.kind \in {"result", "error"}
    \/ msg.kind = "kline" /\ new_data(msg).ok
\* The frame gets past the early returns and the event check, and
\* new_data is built without an exception.
accepts(msg) == msg.kind = "kline" /\ new_data(msg).ok

new_row(t) == [timestamp |-> t]

\* pd.concat([self.df, new_row]) followed by the tail(1000) trim.
LastRows(s, n) == SubSeq(s, Len(s) - n + 1, Len(s))
\* Mutant of append_row: a full window gives up its newest row.
append_row_evicts_newest(rows, r) ==
    IF Len(rows) >= MaxRows THEN Append(SubSeq(rows, 1, MaxRows - 1), r)
    ELSE Append(rows, r)
\* Mutant of append_row: the trim keeps one row too many.
append_row_keeps_one_more(rows, r) ==
    LET all == Append(rows, r)
    IN  IF Len(all) > MaxRows + 1 THEN LastRows(all, MaxRows + 1) ELSE all

append_row(rows, r) ==
    LET all == Append(rows, r)
    IN  IF Len(all) > MaxRows THEN LastRows(all, MaxRows) ELSE all

\* on_message for frame msg; ind, b and fail are what the indicator
\* library does on this tick (ind for the subclass, b for the base class).
on_message(msg, ind, b, fail) ==
    /\ pc = "running"
    /\ ws = "open"
    /\ last_frame' = frame_kind(msg)
    /\ IF accepts(msg)
       THEN /\ df' = append_row(df, new_row(new_data(msg).timestamp.v))
            /\ trimmed' = (trimmed \/ Len(df) + 1 > MaxRows)
            /\ IF cls = "TradingSignalGenerator"
               THEN signals_calculate_indicators(df', ind, fail)
               ELSE base_calculate_indicators(df', b, fail)
       ELSE \* an early return, or the except clause of on_message
            /\ last_tick' = NoTick
            /\ UNCHANGED <<df, trimmed, signal_vars, chan_vars>>
    /\ UNCHANGED session_vars
    /\ UNCHANGED <<cls, conn_vars, hist_vars, call_vars>>

(* ------------------------------------------------------------------ *)
(* Connection lifecycle                                                *)
(* ------------------------------------------------------------------ *)
\* start(), called by the owner of the client: a new WebSocketApp and
\* run_forever, which begins the handshake.
start ==
    /\ pc = "init"
    /\ pc' = "running"
    /\ ws' = "connecting"
    /\ start_outcome' = "running"
    /\ UNCHANGED session_vars
    /\ UNCHANGED <<cls, is_connected, reconnect_attempts, data_vars,
                   hist_vars, subscribed_once>>

\* on_open: the handshake succeeded; send_ok is whether ws.send of the
\* SUBSCRIBE message returned or raised.
on_open(send_ok) ==
    /\ pc = "running"
    /\ ws = "connecting"
    /\ reconnect_attempts' = 0
    /\ IF send_ok
       THEN /\ is_connected' = TRUE
            /\ ws' = "open"
       ELSE /\ is_connected' = FALSE
            /\ ws' = "closing"       \* ws.close(): the close event follows
    /\ row_closes' = 0
    /\ row_reconnects' = 0
    /\ subscribed_once' = (subscribed_once \/ send_ok)
    /\ UNCHANGED session_vars
    /\ UNCHANGED <<cls, pc, data_vars, closes, reconnects, unsubscribed,
                   start_outcome>>

\* on_error: a failed handshake or a dropped connection; run_forever then
\* tears the transport down, which delivers the close event.
on_error ==
    /\ pc = "running"
    /\ ws \in {"connecting", "open"}
    /\ is_connected' = FALSE
    /\ ws' = "closing"
    /\ UNCHANGED session_vars
    /\ UNCHANGED <<cls, pc, reconnect_attempts, data_vars, hist_vars,
                   call_vars>>

\* Mutant of on_close: the attempt counter is compared with <= .
on_close_one_more_attempt ==
    /\ pc = "running"
    /\ ws \in {"open", "closing"}
    /\ closes < MaxCloses
    /\ is_connected' = FALSE
    /\ ws' = "closed"
    /\ IF reconnect_attempts <= max_reconnect_attempts
       THEN /\ reconnect_attempts' = reconnect_attempts + 1
            /\ pc' = "sleeping"
       ELSE /\ pc' = "done"
            /\ UNCHANGED reconnect_attempts
    /\ start_outcome' = (IF pc' = "done" THEN "returned" ELSE start_outcome)
    /\ closes' = closes + 1
    /\ row_closes' = row_closes + 1
    /\ UNCHANGED session_vars
    /\ UNCHANGED <<cls, data_vars, reconnects, row_reconnects, unsubscribed,
                   subscribed_once>>

\* on_close up to the end of time.sleep(reconnect_delay), or up to its
\* return when the attempts are used up (run_forever and start() return).
on_close ==
    /\ pc = "running"
    /\ ws \in {"open", "closing"}
    /\ closes < MaxCloses
    /\ is_connected' = FALSE
    /\ ws' = "closed"
    /\ IF reconnect_attempts < max_reconnect_attempts
       THEN /\ reconnect_attempts' = reconnect_attempts + 1
            /\ pc' = "sleeping"
       ELSE /\ pc' = "done"
            /\ UNCHANGED reconnect_attempts
    /\ start_outcome' = (IF pc' = "done" THEN "returned" ELSE start_outcome)
    /\ closes' = closes + 1
    /\ row_closes' = row_closes + 1
    /\ UNCHANGED session_vars
    /\ UNCHANGED <<cls, data_vars, reconnects, row_reconnects, unsubscribed,
                   subscribed_once>>

\* Mutant of on_close_reconnect: the new session starts on an empty
\* window.
on_close_reconnect_fresh_window ==
    /\ pc = "sleeping"
    /\ pc' = "running"
    /\ ws' = "connecting"
    /\ df' = <<>>
    /\ reconnects' = reconnects + 1
    /\ row_reconnects' = row_reconnects + 1
    /\ UNCHANGED session_vars
    /\ UNCHANGED <<cls, is_connected, reconnect_attempts, trimmed,
                   signal_vars, chan_vars, tick_vars, closes, row_closes,
                   unsubscribed, call_vars>>

\* The rest of on_close: self.start() after the delay has elapsed.
on_close_reconnect ==
    /\ pc = "sleeping"
    /\ pc' = "running"
    /\ ws' = "connecting"
    /\ reconnects' = reconnects + 1
    /\ row_reconnects' = row_reconnects + 1
    /\ UNCHANGED session_vars
    /\ UNCHANGED <<cls, is_connected, reconnect_attempts, data_vars, closes,
                   row_closes, unsubscribed, call_vars>>

\* unsubscribe(), called from outside the connection thread: it acts only
\* while self.ws is set and is_connected is true.
unsubscribe ==
    /\ IF ws # "none" /\ is_connected
       THEN /\ ws' = "closing"      \* send UNSUBSCRIBE, then self.ws.close()
            /\ is_connected' = FALSE
            /\ unsubscribed' = TRUE
       ELSE UNCHANGED <<ws, is_connected, unsubscribed>>
    /\ UNCHANGED session_vars
    /\ UNCHANGED <<cls, pc, reconnect_attempts, data_vars, closes, reconnects,
                   row_closes, row_reconnects, call_vars>>

\* One frame of a healthy stream and what the library makes of it.
NoIndicators == [rsi |-> Num(50), macd |-> Num(0), macd_signal |-> Num(0)]
kline_tick(t) ==
    \/ /\ cls = "TradingSignalGenerator"
       /\ \E ind \in IndicatorInputs :
              on_message(Kline(t), ind, NoSnapshot, "none")
    \/ /\ cls = "BinanceWebSocketClient"
       /\ \E b \in TickInputs : on_message(Kline(t), NoIndicators, b, "none")

(* ------------------------------------------------------------------ *)
(* The dashboard: owner of the channel and its consumer                *)
(* ------------------------------------------------------------------ *)
\* Mutant of append_signal: the first max_signals entries are kept.
append_signal_keeps_first(sigs, data) ==
    LET all == Append(sigs, data)
    IN  IF Len(all) > max_signals THEN SubSeq(all, 1, max_signals) ELSE all

\* signals.append(data), then signals = signals[-10:] when longer than 10.
append_signal(sigs, data) ==
    LET all == Append(sigs, data)
    IN  IF Len(all) > max_signals THEN LastRows(all, max_signals) ELSE all

\* One turn of the `while True` loop of the dashboard script: get_nowait
\* either returns the oldest message or raises queue.Empty (break).
dashboard_poll ==
    /\ client_started
    /\ has_queue
    /\ IF data_queue = <<>>
       THEN UNCHANGED <<data_queue, signals, session_df, taken>>
       ELSE LET data == Head(data_queue)
            IN  /\ data_queue' = Tail(data_queue)
                /\ IF data.kind = "df"
                   THEN /\ session_df' = data
                        /\ UNCHANGED <<signals, taken>>
                   ELSE /\ signals' = append_signal(signals, data)
                        /\ taken' = Append(taken, data.seq)
                        /\ UNCHANGED session_df
    /\ UNCHANGED session_vars
    /\ UNCHANGED <<cls, conn_vars, df, trimmed, signal_vars, has_queue,
                   pub_seq, tick_vars, hist_vars, call_vars>>

\* The two put calls of the client thread, seen from the dashboard alone:
\* a snapshot (calculate_indicators) or a signal (generate_trading_signals)
\* arrives on the channel.
client_put(kind) ==
    /\ has_queue
    /\ pub_seq < MaxMessages
    /\ ~queue_full(data_queue)
    /\ data_queue' = Append(data_queue,
                            IF kind = "df"
                            THEN [kind |-> "df", seq |-> pub_seq + 1,
                                  frame |-> df_copy(df)]
                            ELSE [kind |-> "signal", seq |-> pub_seq + 1,
                                  type |-> "long", strength2 |-> 2,
                                  reasons |-> <<"RSI oversold">>,
                                  price |-> 1, stop_loss100 |-> 98,
                                  take_profit100 |-> 103])
    /\ pub_seq' = pub_seq + 1
    /\ UNCHANGED session_vars
    /\ UNCHANGED <<cls, conn_vars, df, trimmed, signal_vars, has_queue,
                   signals, session_df, taken, tick_vars, hist_vars,
                   call_vars>>

Next ==
    \/ start
    \/ \E send_ok \in BOOLEAN : on_open(send_ok)
    \/ \E t \in Times : kline_tick(t)
    \/ on_error
    \/ on_close
    \/ on_close_reconnect
    \/ unsubscribe

Spec == Init /\ [][Next]_vars

\* A client whose owner has attached a channel (websocket_thread does it
\* for the base class), on a connection that stays up: every kind of frame
\* arrives, the library may raise, the dashboard polls.
InitAttached ==
    /\ Constructed
    /\ has_queue = TRUE
    /\ OneClientSession

\* Library results that take the position machine through an entry: a
\* level tick, then RSI at the oversold threshold with MACD above its
\* signal line.
EntryIndicators ==
    {NoIndicators,
     [rsi |-> Num(rsi_oversold), macd |-> Num(1), macd_signal |-> Num(0)]}
SteadyTimes == {CHOOSE t \in Times : TRUE}

frame_tick ==
    \/ \E msg \in ControlFrames \cup MalformedFrames :
           on_message(msg, NoIndicators, NoSnapshot, "none")
    \/ \E t \in SteadyTimes, ind \in EntryIndicators, b \in TickInputs :
           on_message(Kline(t), ind, b, "none")
    \/ \E t \in SteadyTimes, fail \in FailPoints \ {"none"} :
           on_message(Kline(t), NoIndicators, NoSnapshot, fail)

NextFrames ==
    \/ start
    \/ on_open(TRUE)
    \/ frame_tick
    \/ dashboard_poll

SpecFrames == InitAttached /\ [][NextFrames]_vars

\* The dashboard alone: the client thread is whatever puts messages.
InitDashboard ==
    /\ InitAttached
    /\ cls = "BinanceWebSocketClient"

NextDashboard ==
    \/ \E kind \in {"df", "signal"} : client_put(kind)
    \/ dashboard_poll

SpecDashboard == InitDashboard /\ [][NextDashboard]_vars

\* The rules of the base class on a steady stream with the channel
\* attached: every tick the library hands generate_trading_signals a
\* latest and a previous row.  SMAIndicator(window=50) leaves NaN on a row
\* with fewer than 50 rows up to it, so the previous row has an sma_50 only
\* when the window held the minimum before this candle arrived.
prev_sma_50(rows) ==
    IF Len(rows) >= MinSignalBars THEN {Num(1), Num(2)} ELSE {NaN}

InitRules ==
    /\ InitAttached
    /\ cls = "BinanceWebSocketClient"

rule_tick ==
    \E t \in SteadyTimes, b \in SnapshotInputs(prev_sma_50(df)) :
        on_message(Kline(t), NoIndicators, b, "none")

NextRules ==
    \/ start
    \/ on_open(TRUE)
    \/ rule_tick

SpecRules == InitRules /\ [][NextRules]_vars

\* A client with a channel attached on a connection that drops and is
\* re-established: the lifecycle of Spec around a steady stream of
\* candles.
steady_tick ==
    \E t \in SteadyTimes, ind \in EntryIndicators, b \in TickInputs :
        on_message(Kline(t), ind, b, "none")

NextReconnect ==
    \/ start
    \/ \E send_ok \in BOOLEAN : on_open(send_ok)
    \/ steady_tick
    \/ on_error
    \/ on_close
    \/ on_close_reconnect
    \/ unsubscribe

SpecReconnect == InitAttached /\ [][NextReconnect]_vars

(* ------------------------------------------------------------------ *)
(* The dashboard session and its client threads                        *)
(* ------------------------------------------------------------------ *)
\* Everything of the session that the buttons do not touch.
client_side ==
    <<cls, conn_vars, df, trimmed, signal_vars, has_queue, data_queue,
      pub_seq, taken, tick_vars, hist_vars, call_vars>>

\* threading.Thread(target=websocket_thread, args=(data_queue, ...)).start()
\* after st.session_state.data_queue = queue.Queue().
start_thread ==
    /\ Len(threads) < MaxThreads
    /\ session_queue' = session_queue + 1
    /\ threads' = Append(threads, Thread(session_queue + 1))
    /\ client_started' = TRUE

\* "Start Trading": a new Queue and a new thread unless one was started.
start_button ==
    /\ IF ~client_started
       THEN start_thread
       ELSE UNCHANGED session_vars
    /\ UNCHANGED <<client_side, signals, session_df>>

\* "Stop Trading": the flag is cleared and the Queue replaced.
stop_button ==
    /\ IF client_started
       THEN /\ client_started' = FALSE
            /\ session_queue' = session_queue + 1
            /\ UNCHANGED threads
       ELSE UNCHANGED session_vars
    /\ UNCHANGED <<client_side, signals, session_df>>

\* Another pair or interval is selected: data and signals are cleared and,
\* when a client was started, a new Queue and a new thread replace it.
change_selection ==
    /\ session_df' = EmptySnapshot
    /\ signals' = <<>>
    /\ IF client_started
       THEN start_thread
       ELSE UNCHANGED session_vars
    /\ UNCHANGED client_side

\* Thread i's client handles a candle and puts its snapshot on the Queue
\* it was constructed with.
thread_publishes(i) ==
    /\ threads[i].live
    /\ threads[i].published < MaxThreadFrames
    /\ threads' = [threads EXCEPT ![i].published = @ + 1]
    /\ UNCHANGED <<client_side, signals, session_df, client_started,
                   session_queue>>

\* Thread i's client.start() returns: its connection closed and the
\* reconnect attempts are used up.
thread_ends(i) ==
    /\ threads[i].live
    /\ threads' = [threads EXCEPT ![i].live = FALSE]
    /\ UNCHANGED <<client_side, signals, session_df, client_started,
                   session_queue>>

InitSession ==
    /\ Constructed
    /\ cls = "BinanceWebSocketClient"
    /\ has_queue = FALSE
    /\ NoSession

NextSession ==
    \/ start_button
    \/ stop_button
    \/ change_selection
    \/ \E i \in 1..Len(threads) : thread_publishes(i)
    \/ \E i \in 1..Len(threads) : thread_ends(i)

SpecSession == InitSession /\ [][NextSession]_vars

(* ------------------------------------------------------------------ *)
(* Observations used by the properties                                 *)
(* ------------------------------------------------------------------ *)
tail_time == df[Len(df)].timestamp
\* This step is on_message handling a kline frame whose open_time is t.
KlineStep(t) == kline_tick(t)
\* This step is a tick of the position machine with library values ind:
\* calculate_indicators got past its row check and generate_signals past
\* its None check.
SignalTick(ind) ==
    /\ \E t \in Times : on_message(Kline(t), ind, NoSnapshot, "none")
    /\ cls = "TradingSignalGenerator"
    /\ Len(df') >= MinBars
    /\ last_rsi # None /\ last_macd # None /\ last_macd_signal # None
position ==
    IF in_long_position /\ in_short_position THEN "Both"
    ELSE IF in_long_position THEN "Long"
    ELSE IF in_short_position THEN "Short"
    ELSE "None"

(* ------------------------------------------------------------------ *)
(* Reconnect policy                                                    *)
(* ------------------------------------------------------------------ *)
\* C1 (as stated): however the closes of a run are spaced, also when a
\* reconnected session reaches on_open before it drops, the client makes
\* no more than max_reconnect_attempts reconnect attempts in the run.
C1_AsStated == reconnects <= max_reconnect_attempts

\* C1 (amended): in a row of closes with no on_open in between, each of the
\* first max_reconnect_attempts closes is followed by one reconnect attempt,
\* made from the reconnect_delay sleep; the next close of the row ends the
\* run, and nothing changes the connection state after that.
C1_ReconnectBounded ==
    /\ [](/\ row_reconnects <= max_reconnect_attempts
          /\ row_closes <= max_reconnect_attempts + 1
          /\ (pc = "sleeping" => row_reconnects = row_closes - 1)
          /\ (pc = "running" => row_reconnects = row_closes)
          /\ (pc = "done" => /\ row_closes = max_reconnect_attempts + 1
                             /\ row_reconnects = max_reconnect_attempts
                             /\ ~is_connected
                             /\ ws = "closed"))
    /\ [][row_reconnects' > row_reconnects => pc = "sleeping"]_vars
    /\ [][pc = "done" => UNCHANGED <<conn_vars, hist_vars>>]_vars

C1_Witness ==
    /\ pc = "done"
    /\ row_closes = max_reconnect_attempts + 1
    /\ row_reconnects = max_reconnect_attempts

\* C2: once unsubscribe() has sent UNSUBSCRIBE and closed the transport, no
\* step increments reconnect_attempts or starts a connection attempt, and
\* the client stays disconnected.
C2_UnsubscribeNoReconnect ==
    [][unsubscribed => /\ reconnect_attempts' = reconnect_attempts
                       /\ reconnects' = reconnects
                       /\ ~is_connected']_vars

(* ------------------------------------------------------------------ *)
(* Candle window                                                       *)
(* ------------------------------------------------------------------ *)
\* C3: after every frame the window holds at most its capacity of rows.
C3_WindowBounded == Len(df) <= MaxRows

C3_Witness == trimmed /\ Len(df) = MaxRows

\* C4: the open_time values of the window never decrease from oldest to
\* newest.
C4_Monotonic ==
    \A i \in 1..Len(df), j \in 1..Len(df) :
        i < j => df[i].timestamp <= df[j].timestamp

\* C5: a kline frame whose open_time equals the tail's replaces the tail
\* (the length does not change), and only a newer open_time adds a row.
C5_ReplaceTail ==
    [][\A t \in Times :
          (df # <<>> /\ KlineStep(t)) =>
              /\ (t = tail_time => /\ Len(df') = Len(df)
                                   /\ df'[Len(df')].timestamp = t)
              /\ (Len(df') > Len(df) => t > tail_time)]_vars

\* C6: a kline frame whose open_time is older than the tail's changes
\* neither the window nor the position state.
C6_RejectOlder ==
    [][\A t \in Times :
          (df # <<>> /\ t < tail_time /\ KlineStep(t)) =>
              UNCHANGED <<df, signal_vars>>]_vars

(* ------------------------------------------------------------------ *)
(* Position machine and risk gate                                      *)
(* ------------------------------------------------------------------ *)
\* A position is entered in this step.
Entered ==
    \/ ~in_long_position /\ in_long_position'
    \/ ~in_short_position /\ in_short_position'

\* C8: the two position flags are never both set, and a position is entered
\* only from position None in a tick whose check_risk_limits() is true.
C8_OnePosition ==
    /\ [](~(in_long_position /\ in_short_position))
    /\ [][Entered => position = "None" /\ check_risk_limits]_vars

C8_Witness == position = "Long" /\ daily_trades = 1

\* C9: a tick on which the opposite cross occurs closes the open position:
\* Long ends on RSI crossing up through overbought or MACD crossing below
\* its signal line, Short on RSI crossing down through oversold or MACD
\* crossing above its signal line.
C9_ExitOnOppositeCross ==
    [][\A ind \in IndicatorInputs :
          SignalTick(ind) =>
              /\ (/\ position = "Long"
                  /\ \/ rsi_crossed_above_overbought(ind.rsi)
                     \/ macd_crossed_below_signal(ind.macd, ind.macd_signal))
                 => position' = "None"
              /\ (/\ position = "Short"
                  /\ \/ rsi_crossed_below_oversold(ind.rsi)
                     \/ macd_crossed_above_signal(ind.macd, ind.macd_signal))
                 => position' = "None"]_vars

\* C10: from position None, a tick approved by check_risk_limits() on which
\* RSI crosses up through overbought and MACD crosses below its signal line
\* enters Short and counts one trade.
C10_ShortEntry ==
    [][\A ind \in IndicatorInputs :
          (/\ SignalTick(ind)
           /\ position = "None"
           /\ check_risk_limits
           /\ rsi_crossed_above_overbought(ind.rsi)
           /\ macd_crossed_below_signal(ind.macd, ind.macd_signal))
          => /\ position' = "Short"
             /\ daily_trades' = daily_trades + 1]_vars

\* C7: daily_trades never exceeds max_daily_trades, and once it has reached
\* max_daily_trades no step raises it or leaves position None.
\* The formula holds, but C7_LimitReached is unreachable: after the first
\* entry the gate also blocks every exit (see C9), so daily_trades stays
\* at most 1 and the case the claim is about never occurs.
C7_TradeLimit ==
    /\ [](daily_trades <= max_daily_trades)
    /\ [][daily_trades >= max_daily_trades =>
             /\ daily_trades' = daily_trades
             /\ (position = "None" => position' = "None")]_vars

C7_LimitReached == daily_trades = max_daily_trades

(* ------------------------------------------------------------------ *)
(* The channel and the dashboard's signal history                      *)
(* ------------------------------------------------------------------ *)
SignalSeqs == [i \in 1..Len(signals) |-> signals[i].seq]
Newest(s, n) == IF Len(s) < n THEN s ELSE LastRows(s, n)

\* C11: the dashboard's signal history never holds more than 10 entries;
\* after n signals were taken from the channel it holds the most recent
\* min(n, 10) of them, in the order they were published.
C11_SignalHistory ==
    /\ Len(signals) <= max_signals
    /\ SignalSeqs = Newest(taken, max_signals)
    /\ \A i \in 1..Len(taken), j \in 1..Len(taken) :
           i < j => taken[i] < taken[j]
\* More than 10 signals were taken, so the oldest have been dropped.
C11_Witness == Len(taken) > max_signals /\ Len(signals) = max_signals

\* The client thread can handle a kline frame that publishes.
CanPublish ==
    ENABLED (\E t \in SteadyTimes, b \in TickInputs :
                 on_message(Kline(t), NoIndicators, b, "none"))
\* C12: publishing never blocks the client thread, whether or not the
\* dashboard drains the channel, and the two never wait for each other:
\* while the connection is open (and the run's message budget lasts) the
\* client can handle and publish the next frame whatever the channel holds,
\* and the dashboard can always take its next turn.
C12_PublishNeverBlocks ==
    /\ (pc = "running" /\ ws = "open" /\ pub_seq + 2 <= MaxPublished)
       => CanPublish
    /\ ENABLED dashboard_poll
\* Three messages wait on the channel, none was ever taken, and the client
\* can publish more.
C12_Witness ==
    /\ cls = "BinanceWebSocketClient"
    /\ Len(data_queue) = 3 /\ pub_seq = 3
    /\ CanPublish

(* ------------------------------------------------------------------ *)
(* Frames that are not candles, and ticks that fail                    *)
(* ------------------------------------------------------------------ *)
\* This step is on_message handling a control frame.
ControlStep ==
    \E msg \in ControlFrames :
        on_message(msg, NoIndicators, NoSnapshot, "none")
\* C13: handling a control frame ('result' or 'error') leaves the window,
\* the indicator columns, the position state and the channel as they were.
C13_ControlFramesInert ==
    [][ControlStep =>
          /\ UNCHANGED <<df, trimmed, signal_vars, chan_vars>>
          /\ last_tick'.written = {}]_vars
\* A control frame was handled while the window held candles.
C13_Witness == last_frame = "control" /\ df # <<>>

\* This step is on_message handling a malformed or unexpected frame.
MalformedStep ==
    \E msg \in MalformedFrames :
        on_message(msg, NoIndicators, NoSnapshot, "none")
\* C14: a malformed or unexpected frame is dropped without effect: the
\* window and the connection state are unchanged by handling it.
C14_MalformedDropped ==
    [][MalformedStep => UNCHANGED <<df, trimmed, conn_vars>>]_vars

\* C15: a tick whose recompute failed is skipped as a whole: no indicator
\* column was overwritten and nothing was published for it.
C15_FailedTickSkipped ==
    last_tick.outcome = "failed"
        => last_tick.written = {} /\ last_tick.published = 0

(* ------------------------------------------------------------------ *)
(* Minimum history                                                     *)
(* ------------------------------------------------------------------ *)
\* This step puts a signal on the channel.
PublishesSignal ==
    \E i \in 1..Len(data_queue') :
        data_queue'[i].kind = "signal" /\ data_queue'[i].seq > pub_seq
\* C16 as stated: on a tick that leaves the window below the 50-row
\* minimum no signal is published and no position is entered or left, in
\* both policies.
C16_AsStated ==
    [][Len(df') < MinSignalBars =>
          /\ ~PublishesSignal
          /\ UNCHANGED <<in_long_position, in_short_position>>]_vars
\* C16: each policy has its own minimum.  The weighted policy publishes no
\* signal on a tick that leaves the window below 50 rows; the position
\* machine makes no entry or exit on a tick that leaves it below 30 rows.
C16_MinimumHistory ==
    [][/\ Len(df') < MinSignalBars => ~PublishesSignal
       /\ Len(df') < MinBars
             => UNCHANGED <<in_long_position, in_short_position>>]_vars
\* The base client has recomputed on a window one row short of its minimum
\* and published the snapshot alone.
C16_Witness ==
    /\ cls = "BinanceWebSocketClient"
    /\ last_frame = "kline" /\ last_tick.outcome = "ok"
    /\ Len(df) = MinSignalBars - 1
    /\ last_tick.published = 1

(* ------------------------------------------------------------------ *)
(* Subscribed, unsubscribe and the end of start()                      *)
(* ------------------------------------------------------------------ *)
\* C17: the reconnect counter goes back to zero only in a step that
\* reaches Subscribed (handshake done and SUBSCRIBE sent).
C17_ResetOnlyWhenSubscribed ==
    [][(reconnect_attempts # 0 /\ reconnect_attempts' = 0)
          => (ws' = "open" /\ is_connected')]_vars

\* A call of unsubscribe() that leaves the client Disconnected with its
\* transport closed or closing and no reconnect pending.
EffectiveUnsubscribe ==
    /\ unsubscribe
    /\ ~is_connected'
    /\ ws' \in {"closing", "closed"}
    /\ pc' # "sleeping"
\* C18: in every state after a first Subscribed in which the connection
\* thread has not ended, a call of unsubscribe() is effective, also while
\* the client waits to reconnect.
C18_UnsubscribeEffective ==
    (subscribed_once /\ pc \in {"running", "sleeping"})
        => ENABLED EffectiveUnsubscribe

\* C19: once the attempts are used up and the client has stopped for good,
\* the caller of start() has seen an error, not a normal return.
C19_FatalSurfaced == pc = "done" => start_outcome = "raised"

(* ------------------------------------------------------------------ *)
(* One snapshot per recompute                                          *)
(* ------------------------------------------------------------------ *)
\* This step is on_message handling a valid kline frame with a library
\* that does not raise.
CandleStep ==
    \E t \in Times, ind \in EntryIndicators, b \in TickInputs :
        on_message(Kline(t), ind, b, "none")
NewSnapshots ==
    {i \in 1..Len(data_queue') :
        data_queue'[i].kind = "df" /\ data_queue'[i].seq > pub_seq}
\* C20: with a channel attached, a candle step whose recompute succeeded
\* puts exactly one snapshot on the channel, in either class.
C20_SnapshotPerRecompute ==
    [][(CandleStep /\ has_queue /\ last_tick'.outcome = "ok")
          => Cardinality(NewSnapshots) = 1]_vars

(* ------------------------------------------------------------------ *)
(* The weighted rules of the base class                                *)
(* ------------------------------------------------------------------ *)
\* The last frame was a candle on which generate_trading_signals went
\* through its rules (the window held the minimum, nothing raised).
RulesRan ==
    /\ cls = "BinanceWebSocketClient"
    /\ last_frame = "kline"
    /\ last_tick.outcome = "ok"
    /\ Len(df) >= MinSignalBars
\* The rows the rules read on that tick, as the frame holds them after
\* fillna(0).
SeenLatest == Filled(last_tick.input.latest)
SeenPrev == Filled(last_tick.input.prev)
\* The directions the four rules flagged on that tick.
RuleVotes ==
    {rsi_vote(SeenLatest), sma_vote(SeenLatest, SeenPrev),
     macd_vote(SeenLatest, SeenPrev), vwap_vote(SeenLatest, SeenPrev)}
\* The newest message on the channel, and whether the tick put a Signal.
Newest_message == data_queue[Len(data_queue)]
EmittedSignal ==
    /\ last_tick.published = 2
    /\ Len(data_queue) >= 2
    /\ Newest_message.kind = "signal"
    /\ data_queue[Len(data_queue) - 1].kind = "df"
ReasonSet(sig) == {sig.reasons[i] : i \in 1..Len(sig.reasons)}
GoldenCross == "Golden cross (SMA20 crossed above SMA50)"
DeathCross == "Death cross (SMA20 crossed below SMA50)"

SeesGoldenCross ==
    /\ RulesRan
    /\ SeenLatest.sma_20 > SeenLatest.sma_50
    /\ SeenPrev.sma_20 <= SeenPrev.sma_50
BothDirections == RulesRan /\ "long" \in RuleVotes /\ "short" \in RuleVotes
C26_CrossoverNeedsDefined ==
    (RulesRan /\ ReasonSet(last_tick.signal) \cap {GoldenCross, DeathCross}
                     # {})
        => \A row \in {last_tick.input.latest, last_tick.input.prev} :
               row.sma_20.k = "num" /\ row.sma_50.k = "num"

LongReasons ==
    {"RSI oversold", GoldenCross, "MACD bullish crossover",
     "Price crossed above VWAP"}
ShortReasons ==
    {"RSI overbought", DeathCross, "MACD bearish crossover",
     "Price crossed below VWAP"}
\* C27: every Signal put on the channel lists only reasons of rules that
\* fired in its own direction (with the volume confirmation), and its
\* strength counts those rules only.
C27_DirectionConsistent ==
    (RulesRan /\ EmittedSignal) =>
        LET sig == Newest_message
            own == IF sig.type = "long" THEN LongReasons ELSE ShortReasons
            Fired(v) == IF v = sig.type THEN 1 ELSE 0
            Confirms == IF "High volume confirmation" \in ReasonSet(sig)
                        THEN 1 ELSE 0
        IN  /\ ReasonSet(sig) \subseteq own \cup {"High volume confirmation"}
            /\ sig.strength2 =
                   2 * (Fired(rsi_vote(SeenLatest))
                        + Fired(sma_vote(SeenLatest, SeenPrev))
                        + Fired(macd_vote(SeenLatest, SeenPrev)))
                   + Fired(vwap_vote(SeenLatest, SeenPrev)) + Confirms

(* ------------------------------------------------------------------ *)
(* Eviction order and the trade counter                                *)
(* ------------------------------------------------------------------ *)
\* The window after one more candle under first-in first-out eviction.
Fifo(rows, r) ==
    IF Len(rows) < MaxRows THEN Append(rows, r) ELSE Append(Tail(rows), r)
\* C24: the window changes only by taking the arriving candle at its end
\* and, when it is full, giving up its oldest row: once more candles than
\* the capacity were accepted it holds exactly the most recent MaxRows of
\* them in arrival order.
C24_FifoEviction ==
    [][/\ df' # df => \E t \in Times : df' = Fifo(df, new_row(t))
       /\ trimmed' => Len(df') = MaxRows]_vars
C24_Witness ==
    /\ trimmed
    /\ Len(df) = MaxRows
    /\ df[1].timestamp # df[MaxRows].timestamp
    /\ df[1].timestamp # df[2].timestamp

EntryStep == position = "None" /\ position' \in {"Long", "Short"}
\* C25: daily_trades goes up by exactly one on a step that enters a
\* position from None, and no other step changes it (ticks without an
\* entry, denied entries, errors, closes, reconnects, unsubscribe).
C25_TradeCount ==
    [][IF EntryStep THEN daily_trades' = daily_trades + 1
       ELSE daily_trades' = daily_trades]_vars
C25_Witness ==
    /\ daily_trades = 1
    /\ position = "Long"
    /\ reconnects > 0
    /\ last_tick.outcome = "ok"

(* ------------------------------------------------------------------ *)
(* A client without a channel                                          *)
(* ------------------------------------------------------------------ *)
\* The last frame was a candle of a client with no channel on which, with
\* the minimum history, the rules flag a direction.
FlaggedWithoutChannel ==
    /\ ~has_queue
    /\ cls = "BinanceWebSocketClient"
    /\ last_frame = "kline"
    /\ Len(df) >= MinSignalBars
    /\ last_tick.outcome # "none"
    /\ apply_rules(Filled(last_tick.input.latest),
                   Filled(last_tick.input.prev),
                   last_tick.input.volume_mean).type # "none"
\* C30: with no channel attached, a tick that flags a direction ends
\* without an error in the pipeline and its Signal is logged.
C30_SignalWithoutChannel ==
    FlaggedWithoutChannel =>
        last_tick.outcome = "ok" /\ last_tick.signal.type # "none"

(* ------------------------------------------------------------------ *)
(* Snapshots on the channel                                            *)
(* ------------------------------------------------------------------ *)
SnapshotsOn(q) == {i \in 1..Len(q) : q[i].kind = "df"}
\* C23: a snapshot is read-only once published: whatever the producer
\* does next, a snapshot that is on the channel reads the same on the next
\* state, the consumer takes it as it was put, and the snapshot the
\* consumer holds reads the same until it takes a newer one.
C23_SnapshotReadOnly ==
    [][/\ \A i \in SnapshotsOn(data_queue), j \in SnapshotsOn(data_queue') :
              data_queue'[j].seq = data_queue[i].seq
                  => frame_rows(data_queue'[j].frame, df')
                         = frame_rows(data_queue[i].frame, df)
       /\ session_df'.seq = session_df.seq
              => frame_rows(session_df'.frame, df')
                     = frame_rows(session_df.frame, df)
       /\ session_df'.seq # session_df.seq
              => \E i \in SnapshotsOn(data_queue) :
                     /\ data_queue[i].seq = session_df'.seq
                     /\ frame_rows(session_df'.frame, df')
                            = frame_rows(data_queue[i].frame, df)]_vars
C23_Witness ==
    /\ session_df.seq > 0
    /\ frame_rows(session_df.frame, df) # df
    /\ \E i \in SnapshotsOn(data_queue) :
           /\ frame_rows(data_queue[i].frame, df) # df
           /\ data_queue[i].frame # session_df.frame
    /\ trimmed

SignalsOn(q) == {i \in 1..Len(q) : q[i].kind = "signal"}
\* C28: the snapshot of a tick is on the channel before the tick's Signal
\* and the consumer takes messages in the order they were put, so when it
\* has taken a Signal it has already taken the snapshot of that bar.
C28_SnapshotBeforeSignal ==
    /\ \A i, j \in 1..Len(data_queue) :
           i < j => data_queue[i].seq < data_queue[j].seq
    /\ \A i \in SignalsOn(data_queue) :
           \/ \E j \in SnapshotsOn(data_queue) :
                  j < i /\ data_queue[j].seq = data_queue[i].seq - 1
           \/ session_df.seq >= data_queue[i].seq - 1
    /\ \A k \in 1..Len(taken) : session_df.seq >= taken[k] - 1
    /\ \A k \in 1..Len(taken), i \in 1..Len(data_queue) :
           taken[k] < data_queue[i].seq
C28_Witness ==
    /\ taken # <<>>
    /\ session_df.seq = taken[Len(taken)] - 1
    /\ SignalsOn(data_queue) # {}

(* ------------------------------------------------------------------ *)
(* Client threads of a session                                         *)
(* ------------------------------------------------------------------ *)
LiveThreads == {i \in 1..Len(threads) : threads[i].live}
\* C29: at most one client thread of the session is live at any time, and
\* while the session is stopped none is: a thread started earlier has
\* ended when a new one is started or Stop was pressed.
C29_OneLiveThread ==
    /\ Cardinality(LiveThreads) <= 1
    /\ ~client_started => LiveThreads = {}

(* ------------------------------------------------------------------ *)
(* What a close and a reconnect leave alone                            *)
(* ------------------------------------------------------------------ *)
\* The window, the indicator values and position state of the policy, the
\* trade counters and the attached channel.
client_data == <<df, signal_vars, has_queue, data_queue>>
\* This step changes the connection: the transport object, is_connected,
\* reconnect_attempts, or where the connection thread stands.
ConnectionStep ==
    \/ ws' # ws
    \/ is_connected' # is_connected
    \/ reconnect_attempts' # reconnect_attempts
    \/ pc' # pc
\* C31: a step of close handling or reconnection changes connection state
\* only, and the client's data changes only in steps taken on an open
\* connection that stays open: window, indicator values, position state,
\* daily_trades and the attached channel are after a reconnect what they
\* were before the close.
C31_ReconnectKeepsData ==
    [][/\ ConnectionStep => UNCHANGED client_data
       /\ client_data' # client_data
              => (ws = "open" /\ ws' = "open" /\ pc = "running")]_vars
C31_Witness ==
    /\ reconnects > 0
    /\ closes > 1
    /\ ws = "open"
    /\ Len(df) >= MinBars
    /\ data_queue # <<>>
    /\ has_queue

====
